---- MODULE Spec2Model ----
(***************************************************************************)
(* Model of convert_images.py: the proportional fit (fit_box), the         *)
(* size-bounded quality search (save_with_limit), the per-file worker      *)
(* (_process_one_worker) and the dispatcher loop of main.                  *)
(***************************************************************************)
EXTENDS Integers, Sequences, FiniteSets, TLC

(***************************************************************************)
(* Bounds of the model.                                                    *)
(***************************************************************************)
\* image sides 1..MaxDim are enumerated for fit_box
MaxDim == 64
\* max_side arguments 1..MaxSideArg are enumerated for fit_box
MaxSideArg == 6
\* the input tree holds at most MaxBatch files
MaxBatch == 2
\* os.cpu_count() is one of 1..MaxWorkers
MaxWorkers == 2

(***************************************************************************)
(* Program constants.                                                      *)
(***************************************************************************)
\* MAX_SIDE = int(os.getenv("MAX_SIDE") or 2990), environment unset
MAX_SIDE == 2990
\* MAX_MB = int(os.getenv("MAX_MB") or 10), environment unset
MAX_MB == 10

\* for quality in range(95, 40, -5)
RangeStart == 95

\* the loop written as range(95, 45, -5): the stop taken for the last level
RangeStop_last_level == 40 + 5

RangeStop == 40

\* the loop written with a step of -10
RangeStep_ten == 0 - 10

RangeStep == -5

\* img.save(out_path, format="JPEG", quality=40, ...)
FallbackQuality == 40

VARIABLES
    probe,      \* FitSpec: the arguments fit_box is applied to
    fitted,     \* FitSpec: what lines 63-65 make of them, None before
    WORKERS,    \* the module global WORKERS
    tree,       \* indices of the files in_root.rglob("*") finds
    main_pc,    \* where main is: "scan", "collect", "end"
    tasks,      \* main's list of tasks: the relative path of each file
    fut,        \* per task, its future: pending, running, finished, yielded
    result,     \* per task, the tuple its worker returned, until main reads it
    wpc,        \* per task, where its worker is: idle, open, encode, fallback
    im,         \* per task, the image its worker holds (its mode), else None
    quality,    \* per task, the loop variable of save_with_limit
    attempts,   \* per task, the encodes the running save_with_limit call has
                \* made and gone on from, in order
    fs,         \* the output tree: per destination path, the file there
    printed     \* the lines main has printed

vars == <<probe, fitted, WORKERS, tree, main_pc, tasks, fut, result, wpc, im,
          quality, attempts, fs, printed>>

fitVars == <<probe, fitted>>

poolVars == <<WORKERS, tree, main_pc, tasks, fut, result, wpc, im, quality,
              attempts, fs, printed>>

None == [none |-> TRUE]

(***************************************************************************)
(* IEEE-754 binary64 arithmetic, as far as fit_box uses it.                *)
(*                                                                         *)
(* fit_box computes k = min(max_side / w, max_side / h) with Python's true *)
(* division (the correctly rounded double of the quotient of two ints) and *)
(* int(w * k) (the correctly rounded double product, truncated).  The      *)
(* 53-bit significands do not fit TLC's integers, so a double n/d is kept  *)
(* as the quotient it rounds together with its rounding error:             *)
(*    value = (num * 2^s + err) / (den * 2^s),   s = 52 - floor(log2(n/d)) *)
(* where num * 2^s + err is the multiple of den nearest to num * 2^s       *)
(* (ties to the even significand).  All of it is computed exactly, by      *)
(* modular arithmetic on small integers.  Valid for operands below 2^20.   *)
(***************************************************************************)
RECURSIVE Pow2(_)
Pow2(k) == IF k <= 0 THEN 1 ELSE 2 * Pow2(k - 1)

\* 2^s mod md
RECURSIVE Pow2Mod(_, _)
Pow2Mod(s, md) == IF s <= 0 THEN 1 % md ELSE (2 * Pow2Mod(s - 1, md)) % md

\* the largest f >= 0 with d * 2^f <= n (n >= d)
RECURSIVE Log2Up(_, _)
Log2Up(n, d) == IF 2 * d <= n THEN 1 + Log2Up(n, 2 * d) ELSE 0

\* the smallest g >= 0 with n * 2^g >= d
RECURSIVE Log2Down(_, _)
Log2Down(n, d) == IF n >= d THEN 0 ELSE 1 + Log2Down(2 * n, d)

\* floor(log2(n / d)) for positive integers n, d
Log2Floor(n, d) == IF n >= d THEN Log2Up(n, d) ELSE 0 - Log2Down(n, d)

\* n / d of two Python ints: the correctly rounded double of the quotient
TrueDiv(n, d) ==
    LET s == 52 - Log2Floor(n, d)
        r == (n * Pow2Mod(s, d)) % d
        r2 == (n * Pow2Mod(s, 2 * d)) % (2 * d)
        q0odd == r2 >= d
        up == (2 * r > d) \/ (2 * r = d /\ q0odd)
    IN [num |-> n, den |-> d, s |-> s, err |-> IF up THEN d - r ELSE 0 - r]

\* min(k1, k2) of two doubles; rounding is monotonic, so the exact quotients
\* decide, and equal quotients are the same double
FloatMin(k1, k2) == IF k1.num * k2.den <= k2.num * k1.den THEN k1 ELSE k2

\* int(x * k): the double product of the int x and the double k, truncated
MulTrunc(x, k) ==
    LET a == (x * k.num) \div k.den
        b == (x * k.num) % k.den
        g == (x * (0 - k.err)) \div k.den
        ea == Log2Floor(a, 1)
        e2 == ea - (52 - k.s) - (IF a = Pow2(ea) THEN 2 ELSE 1)
        lim == IF e2 < 0 THEN 0 ELSE Pow2(e2)
    IN IF b > 0 \/ k.err >= 0 THEN a
       ELSE IF g <= lim THEN a ELSE a - 1

(***************************************************************************)
(* fit_box(size, max_side)                                                 *)
(***************************************************************************)
FloatMax(k1, k2) == IF k1.num * k2.den >= k2.num * k1.den THEN k1 ELSE k2

\* fit_box with max() for min(): the shorter side is scaled to the box
fit_box_max(size, max_side) ==
    LET w == size[1]
        h == size[2]
        k == FloatMax(TrueDiv(max_side, w), TrueDiv(max_side, h))
    IN IF w <= max_side /\ h <= max_side
       THEN <<w, h>>
       ELSE <<MulTrunc(w, k), MulTrunc(h, k)>>

\* fit_box without lines 28-29: every image is scaled to the box
fit_box_always(size, max_side) ==
    LET w == size[1]
        h == size[2]
        k == FloatMin(TrueDiv(max_side, w), TrueDiv(max_side, h))
    IN <<MulTrunc(w, k), MulTrunc(h, k)>>

fit_box(size, max_side) ==
    LET w == size[1]
        h == size[2]
        k == FloatMin(TrueDiv(max_side, w), TrueDiv(max_side, h))
    IN IF w <= max_side /\ h <= max_side
       THEN <<w, h>>
       ELSE <<MulTrunc(w, k), MulTrunc(h, k)>>

(***************************************************************************)
(* _process_one_worker, lines 63-65: the fit and the resample.  Image.resize*)
(* raises ValueError for a size with a side that is not positive.          *)
(***************************************************************************)
ResizeStep(size, max_side) ==
    LET new_size == fit_box(size, max_side)
        resample == new_size # size
    IN [new_size |-> new_size,
        resample |-> resample,
        raised |-> resample /\ (new_size[1] <= 0 \/ new_size[2] <= 0)]

(***************************************************************************)
(* Paths.  A file of the input tree is its path relative to in_root: a stem*)
(* (directory and name, here a number) and a suffix.                       *)
(***************************************************************************)
ALLOWED_EXISTS == {".jpg", ".jpeg", ".png", ".webp", ".tif", ".tiff", ".bmp"}

\* str.lower() on the suffixes of the model
Lower(suffix) == IF suffix = ".JPG" THEN ".jpg" ELSE suffix

\* the files the input tree can hold: two that differ only in the suffix
\* and a third of another name
FileList == <<[stem |-> 1, suffix |-> ".png"],
              [stem |-> 1, suffix |-> ".JPG"],
              [stem |-> 2, suffix |-> ".png"]>>

FileAt(n) == FileList[n]

Trees == {S \in SUBSET (1..Len(FileList)) : Cardinality(S) <= MaxBatch}

\* p.suffix.lower() in ALLOWED_EXISTS
Accepted(p) == Lower(p.suffix) \in ALLOWED_EXISTS

\* (out_root / rel).with_suffix(".jpg"), relative to out_root
OutPath(rel) == [stem |-> rel.stem, suffix |-> ".jpg"]

OutPaths == {OutPath(FileAt(n)) : n \in 1..Len(FileList)}

\* the files of a set of indices, as a list in index order
RECURSIVE ListOf(_)
ListOf(S) ==
    IF S = {} THEN <<>>
    ELSE LET n == CHOOSE x \in S : \A y \in S : x <= y
         IN <<FileAt(n)>> \o ListOf(S \ {n})

(***************************************************************************)
(* The environment of one worker: what the image file holds and what the   *)
(* encoder and the file system answer.                                     *)
(***************************************************************************)
\* int(MAX_MB * 1024 * 1024)
max_bytes == MAX_MB * 1024 * 1024

\* sizes of decoded images: within the box, over it, and a thin strip
ImageSizes == {<<500, 500>>, <<6000, 4000>>, <<10000, 1>>}

\* EXIF orientations: as stored, and rotated by 90 degrees
Orientations == {1, 6}

ImageModes == {"RGB", "RGBA", "P"}

\* byte lengths an encode can produce: the budget itself and one byte more
EncodedSizes == {max_bytes, max_bytes + 1}

\* what an encode answers: an exception, or a buffer of some length
EncodeResults ==
    {[raised |-> TRUE, bytes |-> 0]}
        \cup {[raised |-> FALSE, bytes |-> n] : n \in EncodedSizes}

Absent == [file |-> "absent"]

Partial == [file |-> "partial"]

Written(q, n) == [file |-> "complete", quality |-> q, bytes |-> n]

Items == 1..Len(tasks)

Running == {i \in Items : fut[i] = "running"}

(***************************************************************************)
(* _process_one_worker and save_with_limit, one action per blocking call.  *)
(***************************************************************************)
\* ImageOps.exif_transpose: orientations 5 to 8 swap the sides
exif_transpose(size, orientation) ==
    IF orientation \in 5..8 THEN <<size[2], size[1]>> ELSE size

\* lines 62-65 on every image of the model
LoadOutcomes ==
    {ResizeStep(exif_transpose(size, o), MAX_SIDE) :
        size \in ImageSizes, o \in Orientations}

\* line 36-37: img.convert("RGB") for the modes JPEG cannot hold
ConvertMode(mode) == IF mode \in {"RGBA", "P"} THEN "RGB" ELSE mode

\* the loop of range(RangeStart, RangeStop, RangeStep) goes on at q
InRange(q) == IF RangeStep < 0 THEN q > RangeStop ELSE q < RangeStop

\* line 42 with one byte of slack
Fits_one_over(bytes, limit) == bytes <= limit + 1

\* line 42: buf.tell() <= max_bytes
Fits(bytes, limit) == bytes <= limit

\* line 68: return True, str(rel), str(out_path.relative_to(out_root))
ReturnOk(i) ==
    /\ result' = [result EXCEPT ![i] =
                    [ok |-> TRUE, rel |-> tasks[i], msg |-> OutPath(tasks[i])]]
    /\ fut' = [fut EXCEPT ![i] = "finished"]
    /\ wpc' = [wpc EXCEPT ![i] = "idle"]
    /\ im' = [im EXCEPT ![i] = None]
    /\ quality' = [quality EXCEPT ![i] = 0]
    /\ attempts' = [attempts EXCEPT ![i] = <<>>]

\* no except clause: the exception ends the worker and no result comes back
ReturnErr_lost(i, e) ==
    /\ wpc' = [wpc EXCEPT ![i] = "idle"]
    /\ im' = [im EXCEPT ![i] = None]
    /\ quality' = [quality EXCEPT ![i] = 0]
    /\ attempts' = [attempts EXCEPT ![i] = <<>>]
    /\ UNCHANGED <<fut, result>>

\* a failure that also cancels the tasks still queued
ReturnErr_cancels(i, e) ==
    /\ result' = [j \in Items |->
                    IF j = i
                    THEN [ok |-> FALSE, rel |-> tasks[i], msg |-> [error |-> e]]
                    ELSE IF fut[j] = "pending"
                    THEN [ok |-> FALSE, rel |-> tasks[j],
                          msg |-> [error |-> "cancelled"]]
                    ELSE result[j]]
    /\ fut' = [j \in Items |->
                 IF j = i \/ fut[j] = "pending" THEN "finished" ELSE fut[j]]
    /\ wpc' = [wpc EXCEPT ![i] = "idle"]
    /\ im' = [im EXCEPT ![i] = None]
    /\ quality' = [quality EXCEPT ![i] = 0]
    /\ attempts' = [attempts EXCEPT ![i] = <<>>]

\* lines 69-70: except Exception as e: return False, str(rel), str(e)
ReturnErr(i, e) ==
    /\ result' = [result EXCEPT ![i] =
                    [ok |-> FALSE, rel |-> tasks[i], msg |-> [error |-> e]]]
    /\ fut' = [fut EXCEPT ![i] = "finished"]
    /\ wpc' = [wpc EXCEPT ![i] = "idle"]
    /\ im' = [im EXCEPT ![i] = None]
    /\ quality' = [quality EXCEPT ![i] = 0]
    /\ attempts' = [attempts EXCEPT ![i] = <<>>]

\* lines 61-65, 67 and 36-39: open, transpose, fit, resample; then the call
\* of save_with_limit converts the mode and enters the loop
Load(i) ==
    /\ wpc[i] = "open"
    /\ \E ev \in {"ok", "read_error", "decode_error"}, r \in LoadOutcomes,
          mode \in ImageModes :
          IF ev # "ok" THEN ReturnErr(i, ev)
          ELSE IF r.raised THEN ReturnErr(i, "resize_error")
          ELSE /\ im' = [im EXCEPT ![i] = [mode |-> ConvertMode(mode)]]
               /\ quality' = [quality EXCEPT ![i] = RangeStart]
               /\ wpc' = [wpc EXCEPT ![i] =
                             IF InRange(RangeStart) THEN "encode" ELSE "fallback"]
               /\ UNCHANGED <<fut, result, attempts>>
    /\ UNCHANGED <<WORKERS, tree, main_pc, tasks, fs, printed, fitVars>>

\* lines 39-45: one pass of the loop.  out is what the encoder answers, io
\* what mkdir and write_bytes do: "ok", "refused" (mkdir or the open raises,
\* nothing is written) or "broken" (the write raises after the file was
\* opened for writing)
Encode(i) ==
    /\ wpc[i] = "encode"
    /\ \E out \in EncodeResults, io \in {"ok", "refused", "broken"} :
          LET q == quality[i]
              dest == OutPath(tasks[i])
          IN IF out.raised
             THEN ReturnErr(i, "encode_error") /\ UNCHANGED fs
             ELSE IF Fits(out.bytes, max_bytes)
             THEN IF io = "ok"
                  THEN /\ fs' = [fs EXCEPT ![dest] = Written(q, out.bytes)]
                       /\ ReturnOk(i)
                  ELSE IF io = "refused"
                  THEN ReturnErr(i, "write_error") /\ UNCHANGED fs
                  ELSE /\ fs' = [fs EXCEPT ![dest] = Partial]
                       /\ ReturnErr(i, "write_error")
             ELSE /\ attempts' = [attempts EXCEPT ![i] =
                                    Append(@, [quality |-> q, bytes |-> out.bytes])]
                  /\ quality' = [quality EXCEPT ![i] = q + RangeStep]
                  /\ wpc' = [wpc EXCEPT ![i] =
                                IF InRange(q + RangeStep) THEN "encode"
                                ELSE "fallback"]
                  /\ UNCHANGED <<fut, result, im, fs>>
    /\ UNCHANGED <<WORKERS, tree, main_pc, tasks, printed, fitVars>>

\* lines 47-48: mkdir, then img.save encodes straight into the file it opens
\* at out_path.  When the save raises, that file is left partial; a Pillow
\* that removes a file it created itself (cleanup) leaves none.
Fallback(i) ==
    /\ wpc[i] = "fallback"
    /\ \E out \in EncodeResults, io \in {"ok", "refused"}, cleanup \in BOOLEAN :
          LET dest == OutPath(tasks[i])
              left == IF cleanup /\ fs[dest] = Absent THEN Absent ELSE Partial
          IN IF io = "refused"
             THEN ReturnErr(i, "write_error") /\ UNCHANGED fs
             ELSE IF out.raised
             THEN /\ fs' = [fs EXCEPT ![dest] = left]
                  /\ ReturnErr(i, "encode_error")
             ELSE /\ fs' = [fs EXCEPT ![dest] = Written(FallbackQuality, out.bytes)]
                  /\ ReturnOk(i)
    /\ UNCHANGED <<WORKERS, tree, main_pc, tasks, printed, fitVars>>

(***************************************************************************)
(* main                                                                    *)
(***************************************************************************)
\* lines 88-103: list the files, return if there are none, else submit them
Scan ==
    /\ main_pc = "scan"
    /\ LET files == ListOf({n \in tree : Accepted(FileAt(n))})
           n == Len(files)
       IN IF n = 0
          THEN /\ main_pc' = "end"
               /\ UNCHANGED <<tasks, fut, result, wpc, im, quality, attempts>>
          ELSE /\ main_pc' = "collect"
               /\ tasks' = files
               /\ fut' = [i \in 1..n |-> "pending"]
               /\ result' = [i \in 1..n |-> None]
               /\ wpc' = [i \in 1..n |-> "idle"]
               /\ im' = [i \in 1..n |-> None]
               /\ quality' = [i \in 1..n |-> 0]
               /\ attempts' = [i \in 1..n |-> <<>>]
    /\ UNCHANGED <<WORKERS, tree, fs, printed, fitVars>>

\* a process of the pool takes the next queued task (at most WORKERS run)
Start(i) ==
    /\ main_pc = "collect"
    /\ fut[i] = "pending"
    /\ \A j \in Items : j < i => fut[j] # "pending"
    /\ Cardinality(Running) < WORKERS
    /\ fut' = [fut EXCEPT ![i] = "running"]
    /\ wpc' = [wpc EXCEPT ![i] = "open"]
    /\ UNCHANGED <<WORKERS, tree, main_pc, tasks, result, im, quality, attempts,
                   fs, printed, fitVars>>

\* lines 104-109: as_completed yields a finished future, main prints its line
\* and is done with the task
Collect(i) ==
    /\ main_pc = "collect"
    /\ fut[i] = "finished"
    /\ fut' = [fut EXCEPT ![i] = "yielded"]
    /\ printed' = Append(printed,
                         [tag |-> IF result[i].ok THEN "OK" ELSE "ERR",
                          rel |-> result[i].rel,
                          msg |-> result[i].msg])
    /\ result' = [result EXCEPT ![i] = None]
    /\ UNCHANGED <<WORKERS, tree, main_pc, tasks, wpc, im, quality, attempts, fs,
                   fitVars>>

\* every future was yielded: the with block ends and main returns
Exit ==
    /\ main_pc = "collect"
    /\ \A i \in Items : fut[i] = "yielded"
    /\ main_pc' = "end"
    /\ UNCHANGED <<WORKERS, tree, tasks, fut, result, wpc, im, quality, attempts,
                   fs, printed, fitVars>>

(***************************************************************************)
(* The batch: main with its pool of workers.                               *)
(***************************************************************************)
IdleFit == probe = [size |-> <<1, 1>>, max_side |-> 1] /\ fitted = None

Init ==
    /\ IdleFit
    /\ WORKERS \in 1..MaxWorkers
    /\ tree \in Trees
    /\ main_pc = "scan"
    /\ tasks = <<>>
    /\ fut = <<>>
    /\ result = <<>>
    /\ wpc = <<>>
    /\ im = <<>>
    /\ quality = <<>>
    /\ attempts = <<>>
    /\ fs = [p \in OutPaths |-> Absent]
    /\ printed = <<>>

Next ==
    \/ Scan
    \/ \E i \in Items : Start(i)
    \/ \E i \in Items : Load(i)
    \/ \E i \in Items : Encode(i)
    \/ \E i \in Items : Fallback(i)
    \/ \E i \in Items : Collect(i)
    \/ Exit

Spec == Init /\ [][Next]_vars

\* every process of the pool and main itself keep running
FairSpec == Spec /\ WF_vars(Next)

(***************************************************************************)
(* fit_box alone: the arguments are drawn, lines 63-65 are applied.        *)
(***************************************************************************)
FitInputs ==
    {[size |-> <<w, h>>, max_side |-> m] :
        w \in 1..MaxDim, h \in 1..MaxDim, m \in 1..MaxSideArg}
        \cup {[size |-> sz, max_side |-> MAX_SIDE] : sz \in ImageSizes}

FitInit ==
    /\ probe \in FitInputs
    /\ fitted = None
    /\ WORKERS = 1
    /\ tree = {}
    /\ main_pc = "end"
    /\ tasks = <<>>
    /\ fut = <<>>
    /\ result = <<>>
    /\ wpc = <<>>
    /\ im = <<>>
    /\ quality = <<>>
    /\ attempts = <<>>
    /\ fs = [p \in OutPaths |-> Absent]
    /\ printed = <<>>

Fit ==
    /\ fitted = None
    /\ fitted' = ResizeStep(probe.size, probe.max_side)
    /\ UNCHANGED <<probe, poolVars>>

FitNext == Fit

FitSpec == FitInit /\ [][FitNext]_vars

(***************************************************************************)
(* Properties                                                              *)
(***************************************************************************)
\* the lines printed for the relative source path rel
LinesOf(rel) == {k \in 1..Len(printed) : printed[k].rel = rel}

AcceptedTree == {n \in tree : Accepted(FileAt(n))}

\* C1: for a batch of N accepted files and any worker count >= 1 the run
\* eventually ends with exactly N lines printed, every submitted source path
\* in exactly one of them, whatever the order the workers complete in.
C1_EveryItemOneOutcome ==
    <>[](/\ main_pc = "end"
         /\ Len(tasks) = Cardinality(AcceptedTree)
         /\ Len(printed) = Cardinality(AcceptedTree)
         /\ \A n \in AcceptedTree : Cardinality(LinesOf(FileAt(n))) = 1)

\* the run has ended with two lines printed, the second task's first
C1_Witness ==
    /\ main_pc = "end"
    /\ Len(printed) = 2
    /\ Len(tasks) = 2
    /\ printed[1].rel = tasks[2]
    /\ printed[2].rel = tasks[1]

\* task i's worker returns in this step, with a Failure (ok = FALSE) or a
\* Success (ok = TRUE)
Returns(i, ok) ==
    /\ fut[i] = "running"
    /\ fut'[i] = "finished"
    /\ result'[i].ok = ok

ErrorDescriptions ==
    {"read_error", "decode_error", "resize_error", "encode_error", "write_error"}

\* C2: a step in which one task fails returns a Failure with that task's
\* relative source path and a description, leaves main running, and changes
\* nothing of any other task: its future, its result, its worker.
C2_FailureIsolated ==
    [][\A i \in Items :
        Returns(i, FALSE) =>
            /\ result'[i].rel = tasks[i]
            /\ result'[i].msg \in {[error |-> e] : e \in ErrorDescriptions}
            /\ main_pc' = main_pc
            /\ tasks' = tasks
            /\ printed' = printed
            /\ \A j \in Items \ {i} :
                  /\ fut'[j] = fut[j]
                  /\ result'[j] = result[j]
                  /\ wpc'[j] = wpc[j]
                  /\ im'[j] = im[j]
                  /\ quality'[j] = quality[j]
                  /\ attempts'[j] = attempts[j]]_vars

\* a Failure was printed, and after it the Success of another task
C2_Witness ==
    \E k, l \in 1..Len(printed) :
        /\ k < l
        /\ printed[k].tag = "ERR"
        /\ printed[l].tag = "OK"
        /\ printed[k].rel # printed[l].rel

\* C3: when a task returns Success, the file at its destination is complete
\* and at most max_bytes long, unless it is the fallback encode at quality
\* 40, made after each of the levels 95 down to 45 gave more than max_bytes.
C3_WithinBudget ==
    [][\A i \in Items :
        Returns(i, TRUE) =>
            LET f == fs'[OutPath(tasks[i])]
            IN /\ f.file = "complete"
               /\ \/ f.bytes <= max_bytes
                  \/ /\ f.quality = 40
                     /\ {a.quality : a \in {attempts[i][k] : k \in 1..Len(attempts[i])}}
                            = {45 + 5 * n : n \in 0..10}
                     /\ \A k \in 1..Len(attempts[i]) :
                            attempts[i][k].bytes > max_bytes]_vars

\* one Success within the budget below quality 95, one by the fallback over
\* the budget
C3_Witness ==
    \E k, l \in 1..Len(printed) :
        /\ printed[k].tag = "OK"
        /\ printed[l].tag = "OK"
        /\ printed[k].msg # printed[l].msg
        /\ fs[printed[k].msg].file = "complete"
        /\ fs[printed[k].msg].quality \in 45..90
        /\ fs[printed[k].msg].bytes <= max_bytes
        /\ fs[printed[l].msg] = Written(40, max_bytes + 1)

\* C4 as claimed: a task that returns a Failure has not created or changed
\* the file at its destination.
C4_NoFileOnFailure ==
    [][\A i \in Items :
        Returns(i, FALSE) => fs'[OutPath(tasks[i])] = fs[OutPath(tasks[i])]]_vars

\* C5: the levels are encoded in the order 95, 90, ..., 45, the search goes
\* on only from a level that gave more than max_bytes, the fallback comes
\* after all eleven, the level written is the first that fits, and a worker
\* that has returned encodes nothing more.
C5_SearchOrder ==
    /\ [](\A i \in Items :
            /\ Len(attempts[i]) <= 11
            /\ \A k \in 1..Len(attempts[i]) :
                  /\ attempts[i][k].quality = 95 - 5 * (k - 1)
                  /\ attempts[i][k].bytes > max_bytes
            /\ wpc[i] = "encode" => quality[i] = 95 - 5 * Len(attempts[i])
            /\ wpc[i] = "fallback" => Len(attempts[i]) = 11
            /\ fut[i] \in {"finished", "yielded"} => wpc[i] = "idle")
    /\ [][\A i \in Items :
            Returns(i, TRUE) =>
                LET f == fs'[OutPath(tasks[i])]
                IN IF wpc[i] = "encode"
                   THEN f.quality = quality[i] /\ f.bytes <= max_bytes
                   ELSE wpc[i] = "fallback" /\ f.quality = 40]_vars

\* a Success at quality 85: 95 and 90 were over the budget
C5_Witness ==
    \E i \in Items :
        /\ fut[i] = "finished"
        /\ result[i].ok
        /\ fs[OutPath(tasks[i])] = Written(85, max_bytes)

\* C6 as claimed: the fallback comes after exactly ten encodes.
C6_TenAttempts ==
    \A i \in Items : wpc[i] = "fallback" => Len(attempts[i]) = 10

\* C6, amended: the fallback comes after exactly eleven encodes, at the
\* levels 95, 90, ..., 45, each of more than max_bytes.
C6_ElevenAttempts ==
    \A i \in Items :
        wpc[i] = "fallback" =>
            /\ Len(attempts[i]) = 11
            /\ \A k \in 1..11 :
                  /\ attempts[i][k].quality = 100 - 5 * k
                  /\ attempts[i][k].bytes > max_bytes

\* a worker is about to make the fallback encode
C6_Witness ==
    \E i \in Items :
        /\ wpc[i] = "fallback"
        /\ attempts[i][Len(attempts[i])].quality = 45

\* C9 as claimed: no two tasks of a batch have the same destination, and a
\* batch that ended with every line a Success left as many files as tasks.
C9_DistinctDestinations ==
    /\ \A i, j \in Items : i # j => OutPath(tasks[i]) # OutPath(tasks[j])
    /\ (main_pc = "end" /\ \A k \in 1..Len(printed) : printed[k].tag = "OK") =>
            Cardinality({p \in OutPaths : fs[p].file = "complete"}) = Len(tasks)

(***************************************************************************)
(* Properties of fit_box, under FitSpec                                    *)
(***************************************************************************)
Max(a, b) == IF a >= b THEN a ELSE b

OverBox == probe.size[1] > probe.max_side \/ probe.size[2] > probe.max_side

\* C7: for an image over the box on either axis, neither returned side is
\* over max_side, the longer one is max_side or max_side - 1, and each is at
\* most one pixel below its exactly scaled value side * max_side / longer.
C7_FitsTheBox ==
    (fitted # None /\ OverBox) =>
        LET m == probe.max_side
            d == Max(probe.size[1], probe.size[2])
            n == fitted.new_size
        IN /\ n[1] <= m
           /\ n[2] <= m
           /\ Max(n[1], n[2]) \in {m - 1, m}
           /\ \A x \in 1..2 :
                 /\ n[x] * d <= probe.size[x] * m
                 /\ probe.size[x] * m - d <= n[x] * d

\* 6000 x 4000 in a box of 2990 gives 2990 x 1993
C7_Witness ==
    /\ probe = [size |-> <<6000, 4000>>, max_side |-> 2990]
    /\ fitted # None
    /\ fitted.new_size = <<2990, 1993>>

\* C8: an image within the box keeps its size and is not resampled; any
\* other image gets sides no longer than its own.
C8_NeverUpscales ==
    fitted # None =>
        /\ ~OverBox => fitted.new_size = probe.size /\ ~fitted.resample
        /\ OverBox => /\ fitted.new_size[1] <= probe.size[1]
                      /\ fitted.new_size[2] <= probe.size[2]

\* 500 x 500 in a box of 2990 is left alone
C8_Witness ==
    /\ probe = [size |-> <<500, 500>>, max_side |-> 2990]
    /\ fitted # None
    /\ fitted.new_size = <<500, 500>>
    /\ ~fitted.resample

\* C10 as claimed: both returned sides are at least 1.
C10_PositiveSides ==
    fitted # None => fitted.new_size[1] >= 1 /\ fitted.new_size[2] >= 1

====
